---- MODULE Spec2Model ----
(***************************************************************************)
(* Model of the compilation session of conjure-c (src/compiler/mod.rs):    *)
(* the three constructors of Compiler, compile() and interpret().          *)
(* Strings are sequences of one-character strings.  The Scanner and the    *)
(* constant EXT live in crate::prelude / crate::cli::constants.            *)
(***************************************************************************)
EXTENDS Integers, Sequences, FiniteSets, TLC

\* ---------------------------------------------------------------- bounds
MaxLen == 3        \* longest text (file content or in-memory string)
MaxPathLen == 3    \* longest input path
MaxCalls == 2      \* compile()/interpret() calls made on one session

\* ------------------------------------------------------------ value sets
TextChars == {"a", "@", " ", "\n"}
PathChars == {"a", "e", ".", "/"}
Whitespace == {" ", "\n"}

SeqsUpTo(S, n) == UNION {[1..k -> S] : k \in 0..n}

Texts == SeqsUpTo(TextChars, MaxLen)
Paths == SeqsUpTo(PathChars, MaxPathLen)
Cwds == {<<"/", "w">>, <<"/", "d", ".", "e">>}
Asts == {"ast"}
Sources == {<<"s">>}

\* Option<T>
None == [some |-> FALSE]
Some(v) == [some |-> TRUE, val |-> v]

Outputs == {None, Some(<<"o">>)}

\* required extension (crate::cli::constants::EXT)
EXT == <<"e">>

\* ------------------------------------------------- path handling (std::path)
\* PathBuf::join: an absolute argument replaces the base
Join(cwd, input) ==
    IF Len(input) > 0 /\ input[1] = "/" THEN input
    ELSE cwd \o <<"/">> \o input

RECURSIVE SplitOn(_, _)
\* str::split(sep): the pieces between separators, empty pieces kept
SplitOn(s, sep) ==
    IF \A i \in 1..Len(s) : s[i] # sep THEN <<s>>
    ELSE LET i == CHOOSE j \in 1..Len(s) :
                     s[j] = sep /\ \A k \in 1..(j-1) : s[k] # sep
         IN <<SubSeq(s, 1, i-1)>> \o SplitOn(SubSeq(s, i+1, Len(s)), sep)

IsNamedComponent(c) == c # <<>> /\ c # <<".">>

\* Path::components of an absolute path, without the root: empty pieces and
\* "." are skipped
Components(p) == SelectSeq(SplitOn(p, "/"), IsNamedComponent)

\* Path::file_name: the last component when it is a normal one
FileName(p) ==
    LET cs == Components(p) IN
    IF cs = <<>> THEN None
    ELSE IF cs[Len(cs)] = <<".", ".">> THEN None
    ELSE Some(cs[Len(cs)])

\* std::path rsplit_file_at_dot
RsplitFileAtDot(file) ==
    IF file = <<".", ".">> THEN [before |-> Some(file), after |-> None]
    ELSE IF \A i \in 1..Len(file) : file[i] # "."
         THEN [before |-> None, after |-> Some(file)]
    ELSE LET i == CHOOSE j \in 1..Len(file) :
                     file[j] = "." /\ \A k \in (j+1)..Len(file) : file[k] # "."
         IN IF i = 1 THEN [before |-> Some(file), after |-> None]
            ELSE [before |-> Some(SubSeq(file, 1, i-1)),
                  after |-> Some(SubSeq(file, i+1, Len(file)))]

\* Path::extension
Extension(p) ==
    LET f == FileName(p) IN
    IF ~f.some THEN None
    ELSE LET r == RsplitFileAtDot(f.val) IN
         IF r.before.some THEN r.after ELSE None

RECURSIVE TrimStartToo(_)
\* variant of trim_end that also trims the front (str::trim)
TrimStartToo(s) ==
    IF s = <<>> THEN s
    ELSE IF s[Len(s)] \in Whitespace THEN TrimStartToo(SubSeq(s, 1, Len(s)-1))
    ELSE IF s[1] \in Whitespace THEN TrimStartToo(SubSeq(s, 2, Len(s)))
    ELSE s

RECURSIVE TrimEnd(_)
\* str::trim_end: drop the trailing whitespace
TrimEnd(s) ==
    IF s = <<>> THEN s
    ELSE IF s[Len(s)] \in Whitespace THEN TrimEnd(SubSeq(s, 1, Len(s)-1))
    ELSE s

\* ------------------------------------------------------- Scanner (prelude)
\* scanning one line: one token per non-blank character, or, when the line
\* holds a character the scanner cannot classify, one diagnostic at the
\* first such character and no tokens for the line
ScanLine(line, idx) ==
    IF \E i \in 1..Len(line) : line[i] = "@"
    THEN [tokens |-> <<>>,
          diags |-> <<[line |-> idx + 1,
                       column |-> CHOOSE i \in 1..Len(line) :
                           line[i] = "@" /\ \A k \in 1..(i-1) : line[k] # "@"]>>]
    ELSE [tokens |-> [k \in 1..Cardinality({i \in 1..Len(line) : line[i] # " "}) |->
                        LET i == CHOOSE j \in 1..Len(line) :
                                   /\ line[j] # " "
                                   /\ Cardinality({m \in 1..j : line[m] # " "}) = k
                        IN [lexeme |-> line[i], line |-> idx + 1, column |-> i]],
          diags |-> <<>>]

RECURSIVE ScanLines(_, _)
\* the lines from index idx on, scanned in index order and concatenated
ScanLines(lines, idx) ==
    IF idx >= Len(lines) THEN [tokens |-> <<>>, diags |-> <<>>]
    ELSE LET h == ScanLine(lines[idx + 1], idx)
             t == ScanLines(lines, idx + 1)
         IN [tokens |-> h.tokens \o t.tokens, diags |-> h.diags \o t.diags]

\* scanning a whole text; the empty text has no lines
ScanText(text) ==
    IF text = <<>> THEN [tokens |-> <<>>, diags |-> <<>>]
    ELSE ScanLines(SplitOn(text, "\n"), 0)

\* Scanner::scan on a session: a no-op when the session holds no text; the
\* diagnostics go to the session's errors, and the Result is an Err exactly
\* when there are any
ScannerScan(s) ==
    LET out == IF s.contents.some THEN ScanText(s.contents.val)
               ELSE [tokens |-> <<>>, diags |-> <<>>]
    IN [tokens |-> out.tokens, diags |-> out.diags, err |-> out.diags # <<>>]

\* ------------------------------------------------------------ constructors
Failed(kind, read) == [kind |-> kind, fileRead |-> read, session |-> None]

\* variant of Compiler::new that reads the file before looking at the extension
CompilerNewReadsFirst(cwd, cwdOk, input, output, fileOk, fileText) ==
    IF ~cwdOk THEN Failed("Io", FALSE)
    ELSE IF ~fileOk THEN Failed("Io", TRUE)
    ELSE LET extension == Extension(Join(cwd, input)) IN
         IF ~extension.some THEN Failed("Panic", TRUE)
         ELSE IF extension.val # EXT THEN Failed("InvalidExtension", TRUE)
         ELSE [kind |-> "Ok", fileRead |-> TRUE,
               session |-> Some([input |-> input, output |-> output,
                                 contents |-> Some(TrimEnd(fileText)),
                                 ast |-> None, context |-> <<>>,
                                 errors |-> <<>>])]

\* Compiler::new, given the environment it reads: whether current_dir()
\* succeeds and with what, whether read_to_string succeeds and with what
CompilerNew(cwd, cwdOk, input, output, fileOk, fileText) ==
    IF ~cwdOk THEN Failed("Io", FALSE)
    ELSE LET extension == Extension(Join(cwd, input)) IN
         IF ~extension.some THEN Failed("Panic", FALSE)
         ELSE IF extension.val # EXT THEN Failed("InvalidExtension", FALSE)
         ELSE IF ~fileOk THEN Failed("Io", TRUE)
         ELSE [kind |-> "Ok", fileRead |-> TRUE,
               session |-> Some([input |-> input, output |-> output,
                                 contents |-> Some(TrimEnd(fileText)),
                                 ast |-> None, context |-> <<>>,
                                 errors |-> <<>>])]

\* Compiler::new_using_str
CompilerNewUsingStr(source, contents) ==
    [input |-> source, output |-> None, contents |-> Some(contents),
     ast |-> None, context |-> <<>>, errors |-> <<>>]

\* variant of new_using_ast that also fills contents
CompilerNewUsingAstWithText(source, tree) ==
    [input |-> source, output |-> None, contents |-> Some(<<>>),
     ast |-> Some(tree), context |-> <<>>, errors |-> <<>>]

\* Compiler::new_using_ast
CompilerNewUsingAst(source, tree) ==
    [input |-> source, output |-> None, contents |-> None,
     ast |-> Some(tree), context |-> <<>>, errors |-> <<>>]

\* ------------------------------------------------------------------ state
VARIABLES
    session,      \* Option<Compiler>: the session the caller owns
    prov,         \* which constructor was called: "none", "file", "str", "ast"
    args,         \* the arguments and environment of the constructor call
    result,       \* what the last call returned to the caller
    fileRead,     \* fs::read_to_string has been called
    scannerNew,   \* number of Scanner::new calls
    scanCalls,    \* number of Scanner::scan calls
    scanned,      \* Option: what the last call's scan produced (a local)
    nCalls        \* compile()/interpret() calls made so far

vars == <<session, prov, args, result, fileRead, scannerNew, scanCalls,
          scanned, nCalls>>

\* a Result<()> carries no token stream
Unit == None

Init ==
    /\ session = None
    /\ prov = "none"
    /\ args = [none |-> TRUE]
    /\ result = [op |-> "init", kind |-> "Ok", tokens |-> Unit]
    /\ fileRead = FALSE
    /\ scannerNew = 0
    /\ scanCalls = 0
    /\ scanned = None
    /\ nCalls = 0

New ==
    /\ prov = "none"
    /\ \E cwd \in Cwds, cwdOk \in BOOLEAN, input \in Paths, output \in Outputs,
          fileOk \in BOOLEAN, fileText \in Texts :
          LET r == CompilerNew(cwd, cwdOk, input, output, fileOk, fileText) IN
          /\ args' = [cwd |-> cwd, cwdOk |-> cwdOk, input |-> input,
                      fileOk |-> fileOk, fileText |-> fileText]
          /\ session' = r.session
          /\ fileRead' = r.fileRead
          /\ result' = [op |-> "new", kind |-> r.kind, tokens |-> Unit]
    /\ prov' = "file"
    /\ UNCHANGED <<scannerNew, scanCalls, scanned, nCalls>>

NewUsingStr ==
    /\ prov = "none"
    /\ \E source \in Sources, contents \in Texts :
          /\ args' = [source |-> source, contents |-> contents]
          /\ session' = Some(CompilerNewUsingStr(source, contents))
    /\ prov' = "str"
    /\ result' = [op |-> "new_using_str", kind |-> "Ok", tokens |-> Unit]
    /\ UNCHANGED <<fileRead, scannerNew, scanCalls, scanned, nCalls>>

NewUsingAst ==
    /\ prov = "none"
    /\ \E source \in Sources, tree \in Asts :
          /\ args' = [source |-> source, ast |-> tree]
          /\ session' = Some(CompilerNewUsingAst(source, tree))
    /\ prov' = "ast"
    /\ result' = [op |-> "new_using_ast", kind |-> "Ok", tokens |-> Unit]
    /\ UNCHANGED <<fileRead, scannerNew, scanCalls, scanned, nCalls>>

\* Compiler::compile: Scanner::new(self), scanner.scan()?, dbg!, Ok(()).
\* The scanner borrows the session mutably and records its diagnostics in
\* it; the ? hands the scanner's Err to the caller, and the tokens are a
\* local that is printed and dropped.
Compile ==
    /\ session.some
    /\ nCalls < MaxCalls
    /\ LET out == ScannerScan(session.val) IN
          /\ session' = Some([session.val EXCEPT !.errors = @ \o out.diags])
          /\ scanned' = Some(out)
          /\ result' = [op |-> "compile",
                        kind |-> IF out.err THEN "LexError" ELSE "Ok",
                        tokens |-> Unit]
    /\ scannerNew' = scannerNew + 1
    /\ scanCalls' = scanCalls + 1
    /\ nCalls' = nCalls + 1
    /\ UNCHANGED <<prov, args, fileRead>>

\* Compiler::interpret: Scanner::new(self), Ok(())
Interpret ==
    /\ session.some
    /\ nCalls < MaxCalls
    /\ scannerNew' = scannerNew + 1
    /\ scanned' = None
    /\ result' = [op |-> "interpret", kind |-> "Ok", tokens |-> Unit]
    /\ nCalls' = nCalls + 1
    /\ UNCHANGED <<session, prov, args, fileRead, scanCalls>>

Next == New \/ NewUsingStr \/ NewUsingAst \/ Compile \/ Interpret

Spec == Init /\ [][Next]_vars

\* ------------------------------------------------------------ properties
TextSession == session.some /\ prov \in {"file", "str"}

\* the extension of the path a file-based construction was given
ArgExtension == Extension(Join(args.cwd, args.input))
WrongExtension == ~ArgExtension.some \/ ArgExtension.val # EXT

\* C1: a session holds exactly one of raw text and a syntax tree, after
\* every constructor and every sequence of compile() and interpret() calls
C1_ExactlyOneSource ==
    session.some => (session.val.contents.some # session.val.ast.some)

C1_Witness ==
    /\ session.some
    /\ nCalls = MaxCalls
    /\ session.val.ast.some
    /\ ~session.val.contents.some

\* C2 (as claimed): file-based construction from a path whose extension
\* differs from EXT, or that has none, returns InvalidExtension and
\* produces no session
C2_WrongExtensionIsInvalidExtension ==
    (prov = "file" /\ WrongExtension) =>
        (result.kind = "InvalidExtension" /\ ~session.some)

\* C3 (as claimed): a session built from a syntax tree never invokes the
\* Scanner and its diagnostic list stays empty
C3_AstNeverInvokesScanner ==
    (prov = "ast" /\ session.some) =>
        (scannerNew = 0 /\ scanCalls = 0 /\ session.val.errors = <<>>)

\* C5 (as claimed): when compile() meets a lexical error every line is
\* still scanned, every diagnostic is recorded in the session, and the
\* caller receives the token stream together with the diagnostics
C5_AccumulateThenReport ==
    (TextSession /\ result.op = "compile" /\ scanned.some
       /\ scanned.val.diags # <<>>) =>
        /\ scanned.val.tokens = ScanText(session.val.contents.val).tokens
        /\ scanned.val.diags = ScanText(session.val.contents.val).diags
        /\ Len(session.val.errors) >= Len(scanned.val.diags)
        /\ SubSeq(session.val.errors,
                  Len(session.val.errors) - Len(scanned.val.diags) + 1,
                  Len(session.val.errors)) = scanned.val.diags
        /\ result.tokens.some
        /\ result.tokens.val = scanned.val.tokens

\* C6 (as claimed): a compile() or interpret() call that returns with a
\* non-empty diagnostic list reports failure, and the partial token stream
\* is available to the caller
C6_DiagnosticsMeanFailure ==
    (session.some /\ result.op \in {"compile", "interpret"}
       /\ session.val.errors # <<>>) =>
        (result.kind # "Ok" /\ result.tokens.some)

\* C7 (as claimed): interpret() on a text session runs the scan that
\* compile() runs, and returns compile()'s outcome
C7_InterpretScansLikeCompile ==
    (TextSession /\ result.op = "interpret") =>
        /\ scanned.some
        /\ scanned.val.diags = ScanText(session.val.contents.val).diags
        /\ session.val.errors # <<>> \/ scanned.val.diags = <<>>
        /\ result.kind = (IF ScanText(session.val.contents.val).diags = <<>>
                          THEN "Ok" ELSE "LexError")

\* C9: a session built from a file stores the file's text up to its last
\* non-whitespace character and nothing else; a session built from a string
\* stores that string unchanged
C9_FileTrimmedStrVerbatim ==
    /\ (prov = "file" /\ session.some) =>
          LET stored == session.val.contents.val
              file == args.fileText
          IN /\ session.val.contents.some
             /\ Len(stored) <= Len(file)
             /\ stored = SubSeq(file, 1, Len(stored))
             /\ \A i \in (Len(stored) + 1)..Len(file) : file[i] \in Whitespace
             /\ (stored # <<>> => stored[Len(stored)] \notin Whitespace)
    /\ (prov = "str" /\ session.some) =>
          session.val.contents = Some(args.contents)

C9_Witness ==
    /\ prov = "file"
    /\ session.some
    /\ Len(args.fileText) = MaxLen
    /\ args.fileText[1] \in Whitespace
    /\ args.fileText[MaxLen] \in Whitespace
    /\ Len(session.val.contents.val) = MaxLen - 1

====
